---- MODULE Spec2Model ----
(***************************************************************************)
(* Model of app.py (preco-tenis-dinamico): a Flask service that loads a    *)
(* material -> price catalog from a published CSV into the global PRECOS   *)
(* and answers /, /materiais, /preco and POST /reload from it.             *)
(*                                                                         *)
(* Text is modelled as sequences of characters; a character is a one-      *)
(* element TLA+ string naming it:  "a'" is a-acute, "A'" is A-acute,       *)
(* "--" is the en dash U+2013, "bei" is the CJK character U+5317.          *)
(***************************************************************************)
EXTENDS Integers, Sequences, FiniteSets, TLC

VARIABLES
    PRECOS,      \* app.py:70   the shared catalog: key -> <<nome_canonico, preco>>
    CSV_URL,     \* app.py:16   TRUE iff FONTE_MATERIAIS_CSV_URL is set
    boot,        \* "inicio" before the module-level load (114-117), then "servindo"
    req,         \* per worker thread: the request being handled and its locals
    ultimoOk,    \* history: result of the most recent successful load
    nIn, nOut, nOut2, nPc,          \* norm applied once and twice to an input
    arS, arN, arR, arPc             \* arredonda_para_terminar_em_7 applied to arS/arN

vars == <<PRECOS, CSV_URL, boot, req, ultimoOk,
          nIn, nOut, nOut2, nPc, arS, arN, arR, arPc>>

servVars == <<PRECOS, CSV_URL, boot, req, ultimoOk>>
normVars == <<nIn, nOut, nOut2, nPc>>
arVars   == <<arS, arN, arR, arPc>>

(***************************************************************************)
(* Bounds                                                                  *)
(***************************************************************************)
MaxLen  == 3      \* longest input string given to norm
MaxSoma == 45     \* sums range over -MaxSoma..MaxSoma (plus the documented cases)
MaxDiv  == 3      \* divisors (list lengths) range over 1..MaxDiv

(***************************************************************************)
(* Characters                                                              *)
(***************************************************************************)
Alfabeto == {"a", "A", "a'", "A'", "-", " ", "--", "bei"}

IsSpace(c) == c = " "

\* str.lower() on one character
LowerChar(c) ==
    CASE c = "A"  -> "a"
      [] c = "B"  -> "b"
      [] c = "C"  -> "c"
      [] c = "D"  -> "d"
      [] c = "A'" -> "a'"
      [] OTHER    -> c

\* unidecode.unidecode() on one character: the ASCII transliteration
UnidecodeChar(c) ==
    CASE c = "a'"  -> <<"a">>
      [] c = "A'"  -> <<"A">>
      [] c = "--"  -> <<"-">>
      [] c = "bei" -> <<"B", "e", "i", " ">>
      [] OTHER     -> <<c>>

\* code point, for sorted()
Ord(c) ==
    CASE c = " "   -> 32
      [] c = ","   -> 44
      [] c = "-"   -> 45
      [] c = "A"   -> 65
      [] c = "B"   -> 66
      [] c = "C"   -> 67
      [] c = "D"   -> 68
      [] c = "a"   -> 97
      [] c = "b"   -> 98
      [] c = "c"   -> 99
      [] c = "d"   -> 100
      [] c = "e"   -> 101
      [] c = "i"   -> 105
      [] c = "A'"  -> 193
      [] c = "a'"  -> 225
      [] c = "--"  -> 8211
      [] c = "bei" -> 21271

(***************************************************************************)
(* String functions                                                        *)
(***************************************************************************)
RECURSIVE LStrip(_)
LStrip(s) == IF s # <<>> /\ IsSpace(Head(s)) THEN LStrip(Tail(s)) ELSE s

RECURSIVE RStrip(_)
RStrip(s) ==
    IF s # <<>> /\ IsSpace(s[Len(s)]) THEN RStrip(SubSeq(s, 1, Len(s) - 1)) ELSE s

\* str.strip()
Strip(s) == RStrip(LStrip(s))

\* str.lower()
Lower(s) == [i \in 1..Len(s) |-> LowerChar(s[i])]

RECURSIVE Unidecode(_)
Unidecode(s) ==
    IF s = <<>> THEN <<>> ELSE UnidecodeChar(Head(s)) \o Unidecode(Tail(s))

\* str.replace(a, b) for single characters
Replace(s, a, b) == [i \in 1..Len(s) |-> IF s[i] = a THEN b ELSE s[i]]

\* length of the longest prefix of s that does not contain sep
RECURSIVE PrefixLen(_, _)
PrefixLen(s, sep) ==
    IF s = <<>> \/ Head(s) = sep THEN 0 ELSE 1 + PrefixLen(Tail(s), sep)

\* str.split(sep): every field, empty ones included
RECURSIVE SplitSep(_, _)
SplitSep(s, sep) ==
    LET n == PrefixLen(s, sep) IN
    IF n = Len(s) THEN <<s>>
    ELSE <<SubSeq(s, 1, n)>> \o SplitSep(SubSeq(s, n + 2, Len(s)), sep)

\* str.split(): fields separated by runs of whitespace, no empty fields
RECURSIVE SplitWs(_)
SplitWs(s) ==
    LET t == LStrip(s)
        n == PrefixLen(t, " ")
    IN  IF t = <<>> THEN <<>>
        ELSE <<SubSeq(t, 1, n)>> \o SplitWs(SubSeq(t, n + 1, Len(t)))

\* sep.join(words)
RECURSIVE Join(_, _)
Join(sep, ws) ==
    IF ws = <<>> THEN <<>>
    ELSE IF Len(ws) = 1 THEN ws[1]
    ELSE ws[1] \o sep \o Join(sep, Tail(ws))

\* app.py:22-33
norm(txt) ==
    LET t1 == Unidecode(Lower(Strip(txt)))
        t2 == Replace(t1, "-", " ")
    IN  Join(<<" ">>, SplitWs(t2))

\* lexicographic order on strings by code point
RECURSIVE StrLess(_, _)
StrLess(s, t) ==
    IF t = <<>> THEN FALSE
    ELSE IF s = <<>> THEN TRUE
    ELSE IF Ord(Head(s)) # Ord(Head(t)) THEN Ord(Head(s)) < Ord(Head(t))
    ELSE StrLess(Tail(s), Tail(t))

\* sorted(S) for a set of strings
RECURSIVE Sorted(_)
Sorted(S) ==
    IF S = {} THEN <<>>
    ELSE LET m == CHOOSE x \in S : \A y \in S \ {x} : StrLess(x, y)
         IN  <<m>> \o Sorted(S \ {m})

(***************************************************************************)
(* Rounding to the nearest integer ending in 7.  The value is the exact    *)
(* quotient s/n with n >= 1; comparisons are scaled by n.                  *)
(***************************************************************************)
Abs(x) == IF x < 0 THEN -x ELSE x

\* a variant that breaks ties downwards
arredondaEmpateParaBaixo(s, n) ==
    LET base   == ((s \div n) \div 10) * 10 + 7
        lower7 == IF base * n > s THEN base - 10 ELSE base
        upper7 == lower7 + 10
    IN  IF Abs(s - lower7 * n) <= Abs(upper7 * n - s) THEN lower7 ELSE upper7

\* app.py:39-64
arredonda_para_terminar_em_7(s, n) ==
    LET base       == ((s \div n) \div 10) * 10 + 7
        lower7     == IF base * n > s THEN base - 10 ELSE base
        upper7     == lower7 + 10
        dist_lower == Abs(s - lower7 * n)
        dist_upper == Abs(upper7 * n - s)
    IN  IF dist_lower < dist_upper THEN lower7
        ELSE IF dist_upper < dist_lower THEN upper7
        ELSE upper7

RECURSIVE SumSeq(_)
SumSeq(q) == IF q = <<>> THEN 0 ELSE Head(q) + SumSeq(Tail(q))

\* a variant that forgets to divide the sum by the number of prices
precoSomaSemDividir(precos) == arredonda_para_terminar_em_7(SumSeq(precos), 1)

\* app.py:127-129
preco_media_simples(precos) ==
    arredonda_para_terminar_em_7(SumSeq(precos),
                                 IF Len(precos) > 1 THEN Len(precos) ELSE 1)

(***************************************************************************)
(* The remote CSV.  A row is its name cell and its price cell; a price     *)
(* cell is empty, has no digit at all ("lixo"), or parses to an integer.   *)
(***************************************************************************)
Num(n) == [tipo |-> "num", val |-> n]
Vazia  == [tipo |-> "vazio", val |-> 0]
Lixo   == [tipo |-> "lixo", val |-> 0]

Fontes == {"erro", "f1", "f2", "fvazia"}

Conteudo(f) ==
    CASE f = "f1" ->
           << [nome |-> <<"a">>, preco |-> Num(5)],
              [nome |-> <<" ", "A'">>, preco |-> Num(12)],
              [nome |-> <<"B", "-", "c">>, preco |-> Num(27)],
              [nome |-> <<"d">>, preco |-> Lixo] >>
      [] f = "f2" ->
           << [nome |-> <<"D">>, preco |-> Num(7)],
              [nome |-> <<"a">>, preco |-> Num(20)] >>
      [] f = "fvazia" ->
           << [nome |-> <<" ">>, preco |-> Num(5)],
              [nome |-> <<"a">>, preco |-> Vazia],
              [nome |-> <<"-">>, preco |-> Num(3)],
              [nome |-> <<"b">>, preco |-> Lixo] >>
      [] OTHER -> <<>>

CatVazio == [k \in {} |-> <<>>]

\* app.py:85-106  the loop over the rows, filling precos_tmp
RECURSIVE ParseRows(_, _)
ParseRows(rows, tmp) ==
    IF rows = <<>> THEN tmp
    ELSE
      LET row   == Head(rows)
          nome  == Strip(row.nome)
          chave == norm(nome)
          skip  == \/ nome = <<>>
                   \/ row.preco.tipo # "num"
                   \/ chave = <<>>
          novo  == [k \in (DOMAIN tmp) \cup {chave} |->
                      IF k = chave THEN <<nome, row.preco.val>> ELSE tmp[k]]
      IN  ParseRows(Tail(rows), IF skip THEN tmp ELSE novo)

\* a variant of the loader that accepts a CSV without any valid row
CarregarSemChecarVazio(url, f) ==
    IF ~url THEN [ok |-> FALSE, erro |-> "url", tmp |-> CatVazio, buscou |-> FALSE]
    ELSE IF f = "erro"
         THEN [ok |-> FALSE, erro |-> "fetch", tmp |-> CatVazio, buscou |-> TRUE]
    ELSE [ok |-> TRUE, erro |-> "", tmp |-> ParseRows(Conteudo(f), CatVazio),
          buscou |-> TRUE]

\* app.py:72-109  carregar_precos_do_csv up to, and without, the assignment
\* to PRECOS: the outcome (raised or not, and which error) and precos_tmp
Carregar(url, f) ==
    IF ~url THEN [ok |-> FALSE, erro |-> "url", tmp |-> CatVazio, buscou |-> FALSE]
    ELSE IF f = "erro"
         THEN [ok |-> FALSE, erro |-> "fetch", tmp |-> CatVazio, buscou |-> TRUE]
    ELSE LET tmp == ParseRows(Conteudo(f), CatVazio) IN
         IF DOMAIN tmp = {}
         THEN [ok |-> FALSE, erro |-> "vazio", tmp |-> tmp, buscou |-> TRUE]
         ELSE [ok |-> TRUE, erro |-> "", tmp |-> tmp, buscou |-> TRUE]

\* a variant that assigns precos_tmp to PRECOS before the checks
AposCargaSempreAtribui(atual, c) == c.tmp

\* app.py:108-111  PRECOS after a load: assigned only when nothing was raised
AposCarga(atual, c) == IF c.ok THEN c.tmp ELSE atual

\* a variant of the test in garantir_precos that reloads on every request
PrecisaCarregarSempre(P) == TRUE

\* a variant of the test in garantir_precos that never reloads
PrecisaCarregarNunca(P) == FALSE

\* app.py:121  "if not PRECOS"
PrecisaCarregar(P) == DOMAIN P = {}

(***************************************************************************)
(* Requests                                                                *)
(***************************************************************************)
Threads == {"t1", "t2"}

REGRAS == {"media_simples"}

Consultas ==
    { <<>>,
      <<" ">>,
      <<",">>,
      <<"A">>,
      <<"a", ",", "A'">>,
      <<"b", "-", "C", ",", " ", "a'">>,
      <<"D", ",", "b", " ", "c">>,
      <<"B">> }

RegrasPedidas == {"", "media_simples", "mediana"}

SemCarga == [ok |-> FALSE, erro |-> "nenhuma", tmp |-> CatVazio, buscou |-> FALSE]
SemResp  == [status |-> 0]

ReqOcioso ==
    [kind |-> "nenhum", pc |-> "idle", qs |-> <<>>, regra |-> "",
     carga |-> SemCarga, pedidos |-> <<>>, i |-> 0, itens |-> <<>>,
     nao |-> <<>>, chaves |-> <<>>, nomeLido |-> <<>>, resp |-> SemResp,
     tentativas |-> 0, buscas |-> 0, vazioAoChegar |-> FALSE, vistos |-> {}]

\* app.py:189  the requested names: split on ",", strip, drop the blank ones
Pedidos(materias_qs) ==
    LET campos == SplitSep(materias_qs, ",")
        aparados == [j \in 1..Len(campos) |-> Strip(campos[j])]
    IN  SelectSeq(aparados, LAMBDA m : m # <<>>)

\* a variant of the suggestion list built from the keys
SugestoesDasChaves(P) == Sorted(DOMAIN P)

\* app.py:143, 207  sorted({canon for (canon, _) in PRECOS.values()})
Sugestoes(P) == Sorted({P[k][1] : k \in DOMAIN P})

\* the answer to a failed load, per endpoint (145, 153, 167, 179)
RespErroCarga(kind, erro) ==
    CASE kind = "alive"  -> [status |-> 200, ok |-> FALSE, erro |-> erro]
      [] kind = "reload" -> [status |-> 500, ok |-> FALSE, erro |-> erro]
      [] OTHER           -> [status |-> 500, erro |-> erro]

\* an exception no handler catches: Flask answers 500
RespKeyError == [status |-> 500, excecao |-> "KeyError"]

\* where a handler continues once the catalog is there
Corpo(kind) ==
    CASE kind = "alive"     -> "corpo"
      [] kind = "materiais" -> "chaves"
      [] kind = "preco"     -> "validar"
      [] kind = "reload"    -> "len"

\* app.py:214-221
RespPreco(r) ==
    [status |-> 200,
     materiais |-> [j \in 1..Len(r.itens) |-> r.itens[j].material],
     itens_precificados |-> r.itens,
     preco |-> preco_media_simples([j \in 1..Len(r.itens) |-> r.itens[j].preco]),
     regra |-> IF r.regra = "" THEN "media_simples" ELSE r.regra]

\* the end of one iteration of the loop at 197-204, and what follows the loop
Avanca(r) ==
    IF r.i < Len(r.pedidos) THEN [r EXCEPT !.i = r.i + 1, !.pc = "teste"]
    ELSE IF r.nao # <<>> THEN [r EXCEPT !.pc = "sugestoes"]
    ELSE [r EXCEPT !.pc = "done", !.resp = RespPreco(r)]

(***************************************************************************)
(* The service.  A step of a handler is one access to shared state: a read *)
(* of the global PRECOS, the download, or the assignment to PRECOS.        *)
(***************************************************************************)
Init ==
    /\ PRECOS = CatVazio
    /\ CSV_URL \in BOOLEAN
    /\ boot = "inicio"
    /\ req = [t \in Threads |-> ReqOcioso]
    /\ ultimoOk = CatVazio
    /\ nIn = <<>> /\ nOut = <<>> /\ nOut2 = <<>> /\ nPc = "fora"
    /\ arS = 0 /\ arN = 1 /\ arR = 0 /\ arPc = "fora"

\* app.py:113-117  the load at import time; a failure is printed, not raised
Startup ==
    /\ boot = "inicio"
    /\ \E f \in Fontes :
         LET c == Carregar(CSV_URL, f) IN
           /\ PRECOS' = AposCarga(PRECOS, c)
           /\ ultimoOk' = IF c.ok THEN c.tmp ELSE ultimoOk
    /\ boot' = "servindo"
    /\ UNCHANGED <<CSV_URL, req, normVars, arVars>>

\* a request arrives at a free worker thread
Chega(t) ==
    /\ boot = "servindo"
    /\ req[t].pc = "idle"
    /\ \/ \E kind \in {"alive", "materiais"} :
            req' = [req EXCEPT ![t] = [ReqOcioso EXCEPT !.kind = kind,
                                                        !.pc = "garantir"]]
       \/ req' = [req EXCEPT ![t] = [ReqOcioso EXCEPT !.kind = "reload",
                                                      !.pc = "fetch"]]
       \/ \E qs \in Consultas, regra \in RegrasPedidas :
            req' = [req EXCEPT ![t] = [ReqOcioso EXCEPT !.kind = "preco",
                                                        !.pc = "garantir",
                                                        !.qs = qs,
                                                        !.regra = regra]]
    /\ UNCHANGED <<PRECOS, CSV_URL, boot, ultimoOk, normVars, arVars>>

\* app.py:119-122  garantir_precos: the test of PRECOS
Garantir(t) ==
    /\ req[t].pc = "garantir"
    /\ LET precisa == PrecisaCarregar(PRECOS) IN
         req' = [req EXCEPT ![t].vazioAoChegar = DOMAIN PRECOS = {},
                            ![t].pc = IF precisa THEN "fetch"
                                      ELSE Corpo(req[t].kind)]
    /\ UNCHANGED <<PRECOS, CSV_URL, boot, ultimoOk, normVars, arVars>>

\* app.py:75-109  carregar_precos_do_csv: the download and the parse; when it
\* raises, the handler's except clause answers
Fetch(t) ==
    /\ req[t].pc = "fetch"
    /\ \E f \in Fontes :
       LET c == Carregar(CSV_URL, f)
           r == [req[t] EXCEPT !.carga = c,
                               !.tentativas = @ + 1,
                               !.buscas = @ + (IF c.buscou THEN 1 ELSE 0)]
       IN  IF c.ok
           THEN /\ req' = [req EXCEPT ![t] = [r EXCEPT !.pc = "instalar"]]
                /\ PRECOS' = PRECOS
           ELSE /\ req' = [req EXCEPT ![t] =
                             [r EXCEPT !.pc = "done",
                                       !.resp = RespErroCarga(r.kind, c.erro)]]
                /\ PRECOS' = AposCarga(PRECOS, c)
    /\ UNCHANGED <<CSV_URL, boot, ultimoOk, normVars, arVars>>

\* app.py:111  PRECOS = precos_tmp
Instalar(t) ==
    /\ req[t].pc = "instalar"
    /\ PRECOS' = AposCarga(PRECOS, req[t].carga)
    /\ ultimoOk' = req[t].carga.tmp
    /\ req' = [req EXCEPT ![t].pc = Corpo(req[t].kind)]
    /\ UNCHANGED <<CSV_URL, boot, normVars, arVars>>

\* app.py:143-146  alive: the list of names
Alive(t) ==
    /\ req[t].pc = "corpo"
    /\ req' = [req EXCEPT ![t].pc = "done",
                          ![t].vistos = @ \cup {PRECOS},
                          ![t].resp = [status |-> 200, ok |-> TRUE,
                                       materiais_disponiveis |-> Sugestoes(PRECOS)]]
    /\ UNCHANGED <<PRECOS, CSV_URL, boot, ultimoOk, normVars, arVars>>

\* app.py:165  reload: len(PRECOS)
ReloadLen(t) ==
    /\ req[t].pc = "len"
    /\ req' = [req EXCEPT ![t].pc = "done",
                          ![t].vistos = @ \cup {PRECOS},
                          ![t].resp = [status |-> 200, ok |-> TRUE,
                                       materiais_catalogo |->
                                           Cardinality(DOMAIN PRECOS)]]
    /\ UNCHANGED <<PRECOS, CSV_URL, boot, ultimoOk, normVars, arVars>>

RespMateriais(r) ==
    [status |-> 200, materiais |-> r.itens, fonte_csv |-> CSV_URL]

\* app.py:157  sorted(PRECOS.keys())
MateriaisChaves(t) ==
    /\ req[t].pc = "chaves"
    /\ LET r == [req[t] EXCEPT !.chaves = Sorted(DOMAIN PRECOS),
                               !.vistos = @ \cup {PRECOS},
                               !.i = 1]
       IN  req' = [req EXCEPT ![t] =
                     IF r.chaves = <<>>
                     THEN [r EXCEPT !.pc = "done", !.resp = RespMateriais(r)]
                     ELSE [r EXCEPT !.pc = "item_nome"]]
    /\ UNCHANGED <<PRECOS, CSV_URL, boot, ultimoOk, normVars, arVars>>

\* app.py:156  PRECOS[k][0]
MateriaisNome(t) ==
    /\ req[t].pc = "item_nome"
    /\ LET r == [req[t] EXCEPT !.vistos = @ \cup {PRECOS}]
           k == r.chaves[r.i]
       IN  req' = [req EXCEPT ![t] =
                     IF k \in DOMAIN PRECOS
                     THEN [r EXCEPT !.nomeLido = PRECOS[k][1], !.pc = "item_preco"]
                     ELSE [r EXCEPT !.pc = "done", !.resp = RespKeyError]]
    /\ UNCHANGED <<PRECOS, CSV_URL, boot, ultimoOk, normVars, arVars>>

\* app.py:156  PRECOS[k][1], and the end of the comprehension
MateriaisPreco(t) ==
    /\ req[t].pc = "item_preco"
    /\ LET r == [req[t] EXCEPT !.vistos = @ \cup {PRECOS}]
           k == r.chaves[r.i]
       IN  req' = [req EXCEPT ![t] =
                     IF k \in DOMAIN PRECOS
                     THEN LET r2 == [r EXCEPT !.itens = Append(@,
                                         [material |-> r.nomeLido,
                                          preco |-> PRECOS[k][2]]),
                                              !.nomeLido = <<>>]
                          IN  IF r.i < Len(r.chaves)
                              THEN [r2 EXCEPT !.i = r.i + 1, !.pc = "item_nome"]
                              ELSE [r2 EXCEPT !.pc = "done",
                                              !.resp = RespMateriais(r2)]
                     ELSE [r EXCEPT !.pc = "done", !.resp = RespKeyError]]
    /\ UNCHANGED <<PRECOS, CSV_URL, boot, ultimoOk, normVars, arVars>>

\* app.py:181-191  preco: the checks of the parameters
Validar(t) ==
    /\ req[t].pc = "validar"
    /\ LET r == req[t]
           materias_qs == Strip(r.qs)
           regra == IF r.regra = "" THEN "media_simples" ELSE r.regra
           pedidos == Pedidos(materias_qs)
           erro(msg) == [r EXCEPT !.pc = "done",
                                  !.resp = [status |-> 400, erro |-> msg]]
       IN  req' = [req EXCEPT ![t] =
                     IF materias_qs = <<>> THEN erro("obrigatorio")
                     ELSE IF regra \notin REGRAS THEN erro("regra")
                     ELSE IF pedidos = <<>> THEN erro("nenhum")
                     ELSE [r EXCEPT !.pedidos = pedidos, !.i = 1, !.pc = "teste"]]
    /\ UNCHANGED <<PRECOS, CSV_URL, boot, ultimoOk, normVars, arVars>>

\* app.py:198-199, 204  k in PRECOS
Teste(t) ==
    /\ req[t].pc = "teste"
    /\ LET r == [req[t] EXCEPT !.vistos = @ \cup {PRECOS}]
           m == r.pedidos[r.i]
       IN  req' = [req EXCEPT ![t] =
                     IF norm(m) \in DOMAIN PRECOS
                     THEN [r EXCEPT !.pc = "lookup"]
                     ELSE Avanca([r EXCEPT !.nao = Append(@, m)])]
    /\ UNCHANGED <<PRECOS, CSV_URL, boot, ultimoOk, normVars, arVars>>

\* app.py:200-202  nome_canonico, p = PRECOS[k]
Lookup(t) ==
    /\ req[t].pc = "lookup"
    /\ LET r == [req[t] EXCEPT !.vistos = @ \cup {PRECOS}]
           k == norm(r.pedidos[r.i])
       IN  req' = [req EXCEPT ![t] =
                     IF k \in DOMAIN PRECOS
                     THEN Avanca([r EXCEPT !.itens = Append(@,
                                     [material |-> PRECOS[k][1],
                                      preco |-> PRECOS[k][2]])])
                     ELSE [r EXCEPT !.pc = "done", !.resp = RespKeyError]]
    /\ UNCHANGED <<PRECOS, CSV_URL, boot, ultimoOk, normVars, arVars>>

\* app.py:206-212  the answer when some name is unknown
Desconhecidos(t) ==
    /\ req[t].pc = "sugestoes"
    /\ req' = [req EXCEPT ![t].pc = "done",
                          ![t].vistos = @ \cup {PRECOS},
                          ![t].resp = [status |-> 400, erro |-> "desconhecidos",
                                       nao_encontrados |-> req[t].nao,
                                       sugestoes_disponiveis |-> Sugestoes(PRECOS)]]
    /\ UNCHANGED <<PRECOS, CSV_URL, boot, ultimoOk, normVars, arVars>>

\* the answer is sent; the thread is free again
Responde(t) ==
    /\ req[t].pc = "done"
    /\ req' = [req EXCEPT ![t] = ReqOcioso]
    /\ UNCHANGED <<PRECOS, CSV_URL, boot, ultimoOk, normVars, arVars>>

Next ==
    \/ Startup
    \/ \E t \in Threads : Chega(t)
    \/ \E t \in Threads : Garantir(t)
    \/ \E t \in Threads : Fetch(t)
    \/ \E t \in Threads : Instalar(t)
    \/ \E t \in Threads : Alive(t)
    \/ \E t \in Threads : ReloadLen(t)
    \/ \E t \in Threads : MateriaisChaves(t)
    \/ \E t \in Threads : MateriaisNome(t)
    \/ \E t \in Threads : MateriaisPreco(t)
    \/ \E t \in Threads : Validar(t)
    \/ \E t \in Threads : Teste(t)
    \/ \E t \in Threads : Lookup(t)
    \/ \E t \in Threads : Desconhecidos(t)
    \/ \E t \in Threads : Responde(t)

Spec == Init /\ [][Next]_vars

(***************************************************************************)
(* norm on its own: every text of at most MaxLen characters, normalized    *)
(* once and then once more.                                                *)
(***************************************************************************)
Textos == UNION {[1..n -> Alfabeto] : n \in 0..MaxLen}

InitNorm ==
    /\ PRECOS = CatVazio /\ CSV_URL = FALSE /\ boot = "fora"
    /\ req = [t \in Threads |-> ReqOcioso] /\ ultimoOk = CatVazio
    /\ nIn \in Textos /\ nOut = <<>> /\ nOut2 = <<>> /\ nPc = "entrada"
    /\ arS = 0 /\ arN = 1 /\ arR = 0 /\ arPc = "fora"

NormUma ==
    /\ nPc = "entrada"
    /\ nOut' = norm(nIn)
    /\ nPc' = "uma"
    /\ UNCHANGED <<nIn, nOut2, servVars, arVars>>

NormDuas ==
    /\ nPc = "uma"
    /\ nOut2' = norm(nOut)
    /\ nPc' = "duas"
    /\ UNCHANGED <<nIn, nOut, servVars, arVars>>

NextNorm == NormUma \/ NormDuas

SpecNorm == InitNorm /\ [][NextNorm]_vars

(***************************************************************************)
(* arredonda_para_terminar_em_7 on its own: every mean arS/arN.            *)
(***************************************************************************)
Documentados == {12, 2764, 2768}

Somas == (-MaxSoma..MaxSoma) \cup Documentados

InitArredonda ==
    /\ PRECOS = CatVazio /\ CSV_URL = FALSE /\ boot = "fora"
    /\ req = [t \in Threads |-> ReqOcioso] /\ ultimoOk = CatVazio
    /\ nIn = <<>> /\ nOut = <<>> /\ nOut2 = <<>> /\ nPc = "fora"
    /\ arS \in Somas /\ arN \in 1..MaxDiv /\ arR = 0 /\ arPc = "entrada"

Arredonda ==
    /\ arPc = "entrada"
    /\ arR' = arredonda_para_terminar_em_7(arS, arN)
    /\ arPc' = "feito"
    /\ UNCHANGED <<arS, arN, servVars, normVars>>

NextArredonda == Arredonda

SpecArredonda == InitArredonda /\ [][NextArredonda]_vars

(***************************************************************************)
(* What the claims speak of                                                *)
(***************************************************************************)
Feito(t, kinds) == req[t].pc = "done" /\ req[t].kind \in kinds

RegraRegistrada(regra) == (IF regra = "" THEN "media_simples" ELSE regra) \in REGRAS

\* the requested names of a request, and those a catalog does not resolve
NomesPedidos(r) == Pedidos(Strip(r.qs))
NaoResolvidos(r, c) == SelectSeq(NomesPedidos(r), LAMBDA m : norm(m) \notin DOMAIN c)

\* the sorted display names of a catalog
NomesDe(c) == Sorted({c[k][1] : k \in DOMAIN c})

\* the entry of a catalog for a requested name
ItemDe(c, m) == [material |-> c[norm(m)][1], preco |-> c[norm(m)][2]]

\* the catalog a finished request was answered from, when there is one: the
\* only catalog it read or, if it read none, the catalog it found
CatalogosDe(r) ==
    IF r.vistos # {} THEN (IF Cardinality(r.vistos) = 1 THEN r.vistos ELSE {})
    ELSE IF r.vazioAoChegar /\ ~r.carga.ok THEN {CatVazio}
    ELSE {PRECOS}

\* the answer of /materiais against the catalog c alone
MateriaisDe(c) ==
    LET ks == Sorted(DOMAIN c) IN
    [status |-> 200,
     materiais |-> [j \in 1..Len(ks) |-> [material |-> c[ks[j]][1],
                                          preco |-> c[ks[j]][2]]],
     fonte_csv |-> CSV_URL]

\* the answer of /preco against the catalog c alone
PrecoDe(c, r) ==
    LET ped == NomesPedidos(r)
        nao == NaoResolvidos(r, c)
        its == [j \in 1..Len(ped) |-> ItemDe(c, ped[j])]
    IN  IF Strip(r.qs) = <<>> THEN [status |-> 400, erro |-> "obrigatorio"]
        ELSE IF ~RegraRegistrada(r.regra) THEN [status |-> 400, erro |-> "regra"]
        ELSE IF ped = <<>> THEN [status |-> 400, erro |-> "nenhum"]
        ELSE IF nao # <<>>
             THEN [status |-> 400, erro |-> "desconhecidos",
                   nao_encontrados |-> nao, sugestoes_disponiveis |-> NomesDe(c)]
        ELSE [status |-> 200,
              materiais |-> [j \in 1..Len(ped) |-> its[j].material],
              itens_precificados |-> its,
              preco |-> arredonda_para_terminar_em_7(
                            SumSeq([j \in 1..Len(ped) |-> its[j].preco]), Len(ped)),
              regra |-> "media_simples"]

\* this step is the failure of a load made by thread t
FalhaDeCarga(t) == req[t].pc = "fetch" /\ req'[t].pc = "done"

\* this step is the failure of the load at import time
FalhaNoStartup == boot = "inicio" /\ boot' = "servindo" /\ ultimoOk' = ultimoOk

\* this step is the assignment PRECOS = precos_tmp made by thread t
Atribui(t) == req[t].pc = "instalar" /\ req'[t].pc # "instalar"

(***************************************************************************)
(* C1  A load that fails (URL unset, download error, no valid row) leaves  *)
(* PRECOS as it was, equal to the result of the most recent successful     *)
(* load (empty if there was none), and every catalog read a request makes  *)
(* reads that catalog.                                                     *)
(***************************************************************************)
C1_FalhaPreservaCatalogo ==
    [][ /\ (FalhaNoStartup \/ \E t \in Threads : FalhaDeCarga(t))
           => (PRECOS' = PRECOS /\ PRECOS' = ultimoOk')
        /\ \A t \in Threads : req'[t].vistos \subseteq req[t].vistos \cup {ultimoOk}
      ]_vars

\* a reload has failed on a download error after a successful load, and a
\* /preco request has been priced from the catalog that load left
C1_Witness ==
    \E t, u \in Threads :
       /\ Feito(t, {"reload"}) /\ req[t].carga.erro = "fetch"
       /\ PRECOS # CatVazio /\ PRECOS = ultimoOk
       /\ Feito(u, {"preco"}) /\ req[u].resp.status = 200
       /\ req[u].vistos = {PRECOS}

(***************************************************************************)
(* C2  Every answer of /preco and /materiais is the answer against one of  *)
(* the catalogs that were current during the request, taken alone; no      *)
(* lookup fails on a key that was found present.                           *)
(***************************************************************************)
C2_SnapshotUnico ==
    \A t \in Threads :
       LET r == req[t] IN
       /\ Feito(t, {"materiais"}) /\ r.vistos # {}
            => \E c \in r.vistos : r.resp = MateriaisDe(c)
       /\ Feito(t, {"preco"}) /\ r.vistos # {}
            => \E c \in r.vistos : r.resp = PrecoDe(c, r)

(***************************************************************************)
(* C3 (as stated)  Every /preco request with a requested name that is not  *)
(* a key of the current catalog is answered 400 without a price, with      *)
(* exactly the unresolved names in request order and the sorted display    *)
(* names of the catalog.                                                   *)
(***************************************************************************)
C3_Original ==
    \A t \in Threads :
       LET r == req[t] IN
       Feito(t, {"preco"}) =>
         \A c \in CatalogosDe(r) :
            NaoResolvidos(r, c) # <<>> =>
              /\ r.resp.status = 400
              /\ "preco" \notin DOMAIN r.resp
              /\ "nao_encontrados" \in DOMAIN r.resp
              /\ r.resp.nao_encontrados = NaoResolvidos(r, c)
              /\ r.resp.sugestoes_disponiveis = NomesDe(c)

(***************************************************************************)
(* C3 (amended)  The same, for the requests whose rule is registered and   *)
(* which were not answered 500 for a failed catalog load.                  *)
(***************************************************************************)
C3_Desconhecidos ==
    \A t \in Threads :
       LET r == req[t] IN
       (Feito(t, {"preco"}) /\ RegraRegistrada(r.regra)
          /\ ~(r.vazioAoChegar /\ ~r.carga.ok)) =>
         \A c \in CatalogosDe(r) :
            NaoResolvidos(r, c) # <<>> =>
              /\ r.resp.status = 400
              /\ "preco" \notin DOMAIN r.resp
              /\ "nao_encontrados" \in DOMAIN r.resp
              /\ r.resp.nao_encontrados = NaoResolvidos(r, c)
              /\ r.resp.sugestoes_disponiveis = NomesDe(c)

\* a request with one name the catalog resolves and one it does not
C3_Witness ==
    \E t \in Threads :
       /\ Feito(t, {"preco"}) /\ req[t].vistos = {PRECOS}
       /\ req[t].resp.status = 400
       /\ "nao_encontrados" \in DOMAIN req[t].resp
       /\ Len(req[t].resp.nao_encontrados) = 1
       /\ Len(NomesPedidos(req[t])) = 2
       /\ Len(req[t].resp.sugestoes_disponiveis) = 2

(***************************************************************************)
(* C4  arredonda_para_terminar_em_7(s/n) ends in 7, no other integer       *)
(* ending in 7 is strictly closer to s/n, and of two equally close ones it *)
(* is the larger; 2764 -> 2767, 2768 -> 2767, 12 -> 17.                    *)
(***************************************************************************)
Terminados7 == {c \in -120..2900 : c % 10 = 7}

C5_ValidaAntesDoCatalogo ==
    \A t \in Threads :
       (Feito(t, {"preco"}) /\ Strip(req[t].qs) = <<>>) =>
          /\ req[t].resp = [status |-> 400, erro |-> "obrigatorio"]
          /\ req[t].buscas = 0

(***************************************************************************)
(* C6 (as stated)  Every /preco request that names materials which all     *)
(* resolve in the current catalog is answered with one priced item per     *)
(* name, in request order with duplicates, and the rounded mean of their   *)
(* prices.                                                                 *)
(***************************************************************************)
C6_Original ==
    \A t \in Threads :
       LET r == req[t]
           ped == NomesPedidos(r)
       IN
       (Feito(t, {"preco"}) /\ ped # <<>>) =>
         \A c \in CatalogosDe(r) :
            NaoResolvidos(r, c) = <<>> =>
              /\ r.resp.status = 200
              /\ "itens_precificados" \in DOMAIN r.resp
              /\ r.resp.itens_precificados = [j \in 1..Len(ped) |-> ItemDe(c, ped[j])]
              /\ r.resp.materiais = [j \in 1..Len(ped) |-> ItemDe(c, ped[j]).material]
              /\ r.resp.preco = arredonda_para_terminar_em_7(
                     SumSeq([j \in 1..Len(ped) |-> ItemDe(c, ped[j]).preco]), Len(ped))

(***************************************************************************)
(* C6 (amended)  The same, for the requests whose rule is registered.      *)
(***************************************************************************)
C6_Precificados ==
    \A t \in Threads :
       LET r == req[t]
           ped == NomesPedidos(r)
       IN
       (Feito(t, {"preco"}) /\ ped # <<>> /\ RegraRegistrada(r.regra)) =>
         \A c \in CatalogosDe(r) :
            NaoResolvidos(r, c) = <<>> =>
              /\ r.resp.status = 200
              /\ "itens_precificados" \in DOMAIN r.resp
              /\ r.resp.itens_precificados = [j \in 1..Len(ped) |-> ItemDe(c, ped[j])]
              /\ r.resp.materiais = [j \in 1..Len(ped) |-> ItemDe(c, ped[j]).material]
              /\ r.resp.preco = arredonda_para_terminar_em_7(
                     SumSeq([j \in 1..Len(ped) |-> ItemDe(c, ped[j]).preco]), Len(ped))

\* the same material requested twice, under two spellings
C6_Witness ==
    \E t \in Threads :
       /\ Feito(t, {"preco"}) /\ req[t].resp.status = 200
       /\ Len(req[t].resp.itens_precificados) = 2
       /\ req[t].resp.itens_precificados[1] = req[t].resp.itens_precificados[2]
       /\ req[t].pedidos[1] # req[t].pedidos[2]

(***************************************************************************)
(* C7  No load installs an empty catalog, and a non-empty PRECOS never     *)
(* becomes empty again.                                                    *)
(***************************************************************************)
C7_NuncaVazioDeNovo ==
    [][ /\ DOMAIN PRECOS # {} => DOMAIN PRECOS' # {}
        /\ PRECOS' # PRECOS => DOMAIN PRECOS' # {}
        /\ \A t \in Threads : Atribui(t) => DOMAIN PRECOS' # {}
        /\ (DOMAIN PRECOS' = {}) <=> (DOMAIN ultimoOk' = {})
      ]_vars

\* a CSV without a valid row was downloaded while a catalog was installed
C7_Witness ==
    \E t \in Threads :
       /\ Feito(t, {"reload"}) /\ req[t].carga.erro = "vazio"
       /\ DOMAIN PRECOS # {}

(***************************************************************************)
(* C8  A request to /, /materiais or /preco that finds the catalog empty   *)
(* makes exactly one load attempt; if it fails the request is answered     *)
(* with that failure, and if it succeeds the request goes on and is        *)
(* answered from the catalog it loaded.  The service runs after a failed   *)
(* load at import time.                                                    *)
(***************************************************************************)
C8_CargaPreguicosa ==
    \A t \in Threads :
       LET r == req[t] IN
       /\ r.tentativas <= 1
       /\ r.kind # "nenhum" => boot = "servindo"
       /\ (Feito(t, {"alive", "materiais", "preco"}) /\ r.vazioAoChegar) =>
            /\ r.tentativas = 1
            /\ ~r.carga.ok =>
                 /\ r.resp = RespErroCarga(r.kind, r.carga.erro)
                 /\ r.vistos = {}
            /\ r.carga.ok =>
                 /\ r.resp # RespErroCarga(r.kind, r.carga.erro)
                 /\ "erro" \in DOMAIN r.resp => r.resp.status = 400
                 /\ r.vistos = {r.carga.tmp} =>
                      CASE r.kind = "alive" ->
                             r.resp = [status |-> 200, ok |-> TRUE,
                                       materiais_disponiveis |-> NomesDe(r.carga.tmp)]
                        [] r.kind = "materiais" -> r.resp = MateriaisDe(r.carga.tmp)
                        [] r.kind = "preco" -> r.resp = PrecoDe(r.carga.tmp, r)

\* one request was told of the failed load, another loaded the catalog
C8_Witness ==
    \E t, u \in Threads :
       /\ Feito(t, {"alive"}) /\ req[t].vazioAoChegar /\ ~req[t].carga.ok
       /\ req[t].resp.ok = FALSE
       /\ Feito(u, {"materiais"}) /\ req[u].vazioAoChegar /\ req[u].carga.ok
       /\ req[u].resp.status = 200 /\ Len(req[u].resp.materiais) = 2

(***************************************************************************)
(* C9  norm(norm(x)) = norm(x).                                            *)
(***************************************************************************)
C9_NormIdempotente == nPc = "duas" => nOut2 = nOut

(***************************************************************************)
(* C10 (as stated)  garantir_precos loads exactly when the catalog is      *)
(* empty; a request that finds it non-empty downloads nothing and leaves   *)
(* PRECOS alone; after the first successful load only POST /reload changes *)
(* the catalog.                                                            *)
(***************************************************************************)
C10_Original ==
    [][ /\ \A t \in Threads :
             (req[t].pc = "garantir" /\ req'[t].pc # "garantir") =>
                /\ (req'[t].pc = "fetch") <=> (DOMAIN PRECOS = {})
                /\ PRECOS' = PRECOS
        /\ \A t \in Threads :
             (req'[t].kind \in {"alive", "materiais", "preco"}
                /\ req'[t].pc \notin {"garantir"} /\ ~req'[t].vazioAoChegar) =>
                (req'[t].tentativas = 0 /\ req'[t].buscas = 0)
        /\ (DOMAIN ultimoOk # {} /\ PRECOS' # PRECOS) =>
              \E t \in Threads : Atribui(t) /\ req[t].kind = "reload"
      ]_vars

(***************************************************************************)
(* C10 (amended)  ... after the first successful load the catalog is       *)
(* changed only by POST /reload or by the load of a request that had found *)
(* the catalog empty.                                                      *)
(***************************************************************************)
C10_SoCarregaVazio ==
    [][ /\ \A t \in Threads :
             (req[t].pc = "garantir" /\ req'[t].pc # "garantir") =>
                /\ (req'[t].pc = "fetch") <=> (DOMAIN PRECOS = {})
                /\ PRECOS' = PRECOS
        /\ \A t \in Threads :
             (req'[t].kind \in {"alive", "materiais", "preco"}
                /\ req'[t].pc \notin {"garantir"} /\ ~req'[t].vazioAoChegar) =>
                (req'[t].tentativas = 0 /\ req'[t].buscas = 0)
        /\ (DOMAIN ultimoOk # {} /\ PRECOS' # PRECOS) =>
              \E t \in Threads :
                 Atribui(t) /\ (req[t].kind = "reload" \/ req[t].vazioAoChegar)
      ]_vars

\* a request was priced from an installed catalog without any load attempt
C10_Witness ==
    \E t \in Threads :
       /\ Feito(t, {"preco"}) /\ ~req[t].vazioAoChegar
       /\ req[t].resp.status = 200 /\ req[t].tentativas = 0
       /\ DOMAIN PRECOS # {}

====
